---- MODULE Spec2Model ----
(***************************************************************************)
(* Join-clause synthesis of posthog/warehouse/models/join.py:              *)
(* DataWarehouseJoin.join_function (standard synthesis) and                *)
(* DataWarehouseJoin.join_function_for_experiments (temporal synthesis).   *)
(*                                                                         *)
(* A Python str is a sequence of one-character strings, so that            *)
(* str.split, the `in` substring test and the parsing of a key expression  *)
(* are computed and not assumed.  A Python list is a sequence and a dict   *)
(* is a sequence of <<key, value>> pairs in insertion order.  A value      *)
(* whose type the code tests, or that may be None, carries its type:       *)
(* Str(s), Bool(b), List(xs), Dict(items), None.  An AST node is a record  *)
(* whose field `kind` is the name of its class in posthog.hogql.ast.       *)
(***************************************************************************)
EXTENDS Integers, Sequences, FiniteSets, TLC

VARIABLES self, override_source_table_key, override_joining_table_key,
          join_to_add, node, result,
          now, saved, soft_deletes,
          joins, calls,
          state, at, attempts

\* the arguments of the synthesizers and what the last call returned
join_vars == <<self, override_source_table_key, override_joining_table_key,
               join_to_add, node, result>>

\* the clock datetime.now() reads, the row of the record in the database, and
\* the clock reading of each call of soft_delete so far (a history)
record_vars == <<now, saved, soft_deletes>>

\* the records and the invocations in flight of the concurrent specification:
\* each invocation holds its arguments, its position and its local names
call_vars == <<joins, calls>>

\* the run of the schema generator graph: the assistant state, the node or
\* edge the run is at, and the outcome of each generation so far (a history)
graph_vars == <<state, at, attempts>>

vars == <<join_vars, record_vars, call_vars, graph_vars>>

(***************************************************************************)
(* Bounds of the input sets.                                               *)
(***************************************************************************)
MaxArgs == 2

MaxFields == 2

MaxConjuncts == 2

\* the last reading of the clock
MaxClock == 2

\* the number of calls of soft_delete in one run
MaxSoftDeletes == 2

\* the number of invocations of the synthesizers that run at once
NumCalls == 2

(***************************************************************************)
(* Python values.                                                          *)
(***************************************************************************)
None == [kind |-> "None"]

Str(s) == [kind |-> "str", value |-> s]

Bool(b) == [kind |-> "bool", value |-> b]

List(xs) == [kind |-> "list", value |-> xs]

Dict(items) == [kind |-> "dict", value |-> items]

\* The truth value Python gives a value (`x or y`, `not x`).
Truthy(v) ==
  IF v.kind = "None" THEN FALSE
  ELSE IF v.kind = "bool" THEN v.value
  ELSE v.value # <<>>

\* x or y
PyOr(x, y) == IF Truthy(x) THEN x ELSE y

RECURSIVE Join(_, _)
\* sep.join(parts)
Join(parts, sep) ==
  IF parts = <<>> THEN <<>>
  ELSE IF Len(parts) = 1 THEN parts[1]
  ELSE parts[1] \o sep \o Join(Tail(parts), sep)

RECURSIVE Split(_, _)
\* s.split(c) for a one-character separator c
Split(s, c) ==
  IF \A i \in 1..Len(s) : s[i] # c THEN <<s>>
  ELSE LET i == CHOOSE i \in 1..Len(s) : s[i] = c /\ \A j \in 1..(i - 1) : s[j] # c
       IN <<SubSeq(s, 1, i - 1)>> \o Split(SubSeq(s, i + 1, Len(s)), c)

\* needle in hay, for two str
IsSubstring(needle, hay) ==
  \E i \in 0..(Len(hay) - Len(needle)) : SubSeq(hay, i + 1, i + Len(needle)) = needle

HasKey(d, k) == \E i \in 1..Len(d) : d[i][1] = k

\* d.get(k)
DictGet(d, k) == IF HasKey(d, k) THEN d[CHOOSE i \in 1..Len(d) : d[i][1] = k][2] ELSE None

\* DictSet that adds a second item for a key the dict already holds.
DictSet_AlwaysAppend(d, k, v) == Append(d, <<k, v>>)

\* {**d, k: v}: an existing key keeps its place and takes the new value
DictSet(d, k, v) ==
  IF HasKey(d, k) THEN [i \in 1..Len(d) |-> IF d[i][1] = k THEN <<k, v>> ELSE d[i]]
  ELSE Append(d, <<k, v>>)

(***************************************************************************)
(* String literals of the source.                                          *)
(***************************************************************************)
S_events == <<"e", "v", "e", "n", "t", "s">>

S_event == <<"e", "v", "e", "n", "t">>

S_timestamp == <<"t", "i", "m", "e", "s", "t", "a", "m", "p">>

S_distinct_id == <<"d", "i", "s", "t", "i", "n", "c", "t", "_", "i", "d">>

S_properties == <<"p", "r", "o", "p", "e", "r", "t", "i", "e", "s">>

S_feature_flag_called ==
  <<"$", "f", "e", "a", "t", "u", "r", "e", "_", "f", "l", "a", "g", "_",
    "c", "a", "l", "l", "e", "d">>

S_experiments_optimized == "experiments_optimized"

S_experiments_timestamp_key == "experiments_timestamp_key"

(***************************************************************************)
(* AST nodes (posthog.hogql.ast).                                          *)
(***************************************************************************)
Field(chain) == [kind |-> "Field", chain |-> chain]

Call(name, args) == [kind |-> "Call", name |-> name, args |-> args]

Constant(value) == [kind |-> "Constant", value |-> value]

ArithmeticOperation(op, left, right) ==
  [kind |-> "ArithmeticOperation", op |-> op, left |-> left, right |-> right]

CompareOperation(op, left, right) ==
  [kind |-> "CompareOperation", op |-> op, left |-> left, right |-> right]

Alias(alias, expr) == [kind |-> "Alias", alias |-> alias, expr |-> expr]

And(exprs) == [kind |-> "And", exprs |-> exprs]

Or(exprs) == [kind |-> "Or", exprs |-> exprs]

JoinConstraint(expr, constraint_type) ==
  [kind |-> "JoinConstraint", expr |-> expr, constraint_type |-> constraint_type]

SelectQuery(select, select_from, where) ==
  [kind |-> "SelectQuery", select |-> select, select_from |-> select_from, where |-> where]

\* ast.JoinExpr(table=...) with every other attribute left at its default
JoinExprTable(table) == [kind |-> "JoinExpr", table |-> table]

JoinExpr(table, join_type, alias, constraint) ==
  [kind |-> "JoinExpr", table |-> table, join_type |-> join_type, alias |-> alias,
   constraint |-> constraint]

\* An exception leaving the call: its class, its message and the values
\* formatted into the message.
Raise(exc, message, fmt) == [kind |-> "Raise", exc |-> exc, message |-> message, fmt |-> fmt]

ResolutionError(message, fmt) == Raise("ResolutionError", message, fmt)

(***************************************************************************)
(* posthog.hogql.parser.parse_expr, for the grammar of key expressions:    *)
(*   expr    ::= operand | operand "+" operand                             *)
(*   operand ::= digits | ident ("." ident)* | ident "(" [expr ("," expr)*] ")" *)
(* A text outside this grammar is a syntax error.                          *)
(***************************************************************************)
Digits == {"0", "1", "2", "3", "4", "5", "6", "7", "8", "9"}

IdentStart ==
  {"a", "b", "c", "d", "e", "f", "g", "h", "i", "j", "k", "l", "m", "n", "o", "p", "q",
   "r", "s", "t", "u", "v", "w", "x", "y", "z", "_",
   "A", "B", "C", "D", "E", "F", "G", "H", "I", "J", "K", "L", "M", "N", "O", "P", "Q",
   "R", "S", "T", "U", "V", "W", "X", "Y", "Z"}

IdentChars == IdentStart \cup Digits

RECURSIVE SpanLen(_, _)
\* the length of the longest prefix of s made of characters of cs
SpanLen(s, cs) ==
  IF s = <<>> \/ Head(s) \notin cs THEN 0 ELSE 1 + SpanLen(Tail(s), cs)

Drop(s, n) == SubSeq(s, n + 1, Len(s))

SyntaxError == Raise("SyntaxError", "syntax error", <<>>)

Parsed(n, rest) == [node |-> n, rest |-> rest]

RECURSIVE ParseChain(_, _)
ParseChain(s, chain) ==
  IF Len(s) >= 2 /\ s[1] = "." /\ s[2] \in IdentStart
  THEN LET n == SpanLen(Tail(s), IdentChars)
       IN ParseChain(Drop(s, n + 1), Append(chain, SubSeq(s, 2, n + 1)))
  ELSE Parsed(Field(chain), s)

RECURSIVE ParseExprAt(_)
RECURSIVE ParseOperand(_)
RECURSIVE ParseArgs(_, _, _)

\* the arguments of a call, after its "(" (or after a ","): acc are those read
ParseArgs(name, s, acc) ==
  IF s # <<>> /\ Head(s) = ")" /\ acc = <<>> THEN Parsed(Call(name, <<>>), Tail(s))
  ELSE LET e == ParseExprAt(s)
       IN IF e.node = SyntaxError \/ e.rest = <<>> THEN Parsed(SyntaxError, <<>>)
          ELSE IF Head(e.rest) = "," THEN ParseArgs(name, Tail(e.rest), Append(acc, e.node))
          ELSE IF Head(e.rest) = ")" THEN Parsed(Call(name, Append(acc, e.node)), Tail(e.rest))
          ELSE Parsed(SyntaxError, <<>>)

ParseOperand(s) ==
  IF s = <<>> THEN Parsed(SyntaxError, <<>>)
  ELSE IF Head(s) \in Digits
  THEN LET n == SpanLen(s, Digits) IN Parsed(Constant(SubSeq(s, 1, n)), Drop(s, n))
  ELSE IF Head(s) \in IdentStart
  THEN LET n == SpanLen(s, IdentChars)
           name == SubSeq(s, 1, n)
           rest == Drop(s, n)
       IN IF rest # <<>> /\ Head(rest) = "(" THEN ParseArgs(name, Tail(rest), <<>>)
          ELSE ParseChain(rest, <<name>>)
  ELSE Parsed(SyntaxError, <<>>)

ParseExprAt(s) ==
  LET l == ParseOperand(s)
  IN IF l.node = SyntaxError THEN l
     ELSE IF l.rest # <<>> /\ Head(l.rest) = "+"
     THEN LET r == ParseOperand(Tail(l.rest))
          IN IF r.node = SyntaxError THEN r
             ELSE Parsed(ArithmeticOperation("Add", l.node, r.node), r.rest)
     ELSE l

\* parse_expr(text): the node, or the syntax error it raises
parse_expr(text) ==
  LET r == ParseExprAt(text)
  IN IF r.node # SyntaxError /\ r.rest = <<>> THEN r.node ELSE SyntaxError

RECURSIVE to_hogql(_)
\* Expr.to_hogql(), for the nodes a key or a filter operand is made of
to_hogql(e) ==
  IF e.kind = "Field" THEN Join(e.chain, <<".">>)
  ELSE IF e.kind = "Call"
  THEN e.name \o <<"(">> \o Join([i \in 1..Len(e.args) |-> to_hogql(e.args[i])], <<",", " ">>)
       \o <<")">>
  ELSE IF e.kind = "Constant" THEN e.value
  ELSE IF e.kind = "ArithmeticOperation"
  THEN <<"p", "l", "u", "s", "(">> \o to_hogql(e.left) \o <<",", " ">> \o to_hogql(e.right)
       \o <<")">>
  ELSE IF e.kind = "Alias" THEN to_hogql(e.expr)
  ELSE <<>>

(***************************************************************************)
(* DataWarehouseJoin.join_function: standard synthesis.                    *)
(***************************************************************************)
MSG_no_fields == "No fields requested from {join_to_add.to_table}"

MSG_field_or_call == "Data Warehouse Join HogQL expression should be a Field or Call node"

\* BindKey with the alias put in the place of the first name of the path.
BindKey_ReplaceHead(expr, table) ==
  IF expr.kind = "Raise" THEN expr
  ELSE IF expr.kind = "Field" THEN [expr EXCEPT !.chain = <<table>> \o Tail(@)]
  ELSE IF expr.kind = "Call"
  THEN IF expr.args = <<>> THEN Raise("IndexError", "list index out of range", <<>>)
       ELSE IF expr.args[1].kind = "Field"
       THEN [expr EXCEPT !.args[1].chain = <<table>> \o @]
       ELSE ResolutionError(MSG_field_or_call, <<>>)
  ELSE ResolutionError(MSG_field_or_call, <<>>)

\* BindKey with the alias put before the path of every argument that is a
\* field, not of the first alone.
BindKey_EveryFieldArgument(expr, table) ==
  IF expr.kind = "Raise" THEN expr
  ELSE IF expr.kind = "Field" THEN [expr EXCEPT !.chain = <<table>> \o @]
  ELSE IF expr.kind = "Call"
  THEN IF expr.args = <<>> THEN Raise("IndexError", "list index out of range", <<>>)
       ELSE IF expr.args[1].kind = "Field"
       THEN [expr EXCEPT !.args =
               [i \in 1..Len(@) |->
                  IF @[i].kind = "Field" THEN Field(<<table>> \o @[i].chain) ELSE @[i]]]
       ELSE ResolutionError(MSG_field_or_call, <<>>)
  ELSE ResolutionError(MSG_field_or_call, <<>>)

\* BindKey without the test of the first argument: every call that has an
\* argument passes.
BindKey_AnyCallAccepted(expr, table) ==
  IF expr.kind = "Raise" THEN expr
  ELSE IF expr.kind = "Field" THEN [expr EXCEPT !.chain = <<table>> \o @]
  ELSE IF expr.kind = "Call"
  THEN IF expr.args = <<>> THEN Raise("IndexError", "list index out of range", <<>>)
       ELSE IF expr.args[1].kind = "Field"
       THEN [expr EXCEPT !.args[1].chain = <<table>> \o @]
       ELSE expr
  ELSE ResolutionError(MSG_field_or_call, <<>>)

\* The shape test and the rewrite of one parsed key: the node with `table`
\* put before its chain, or the exception raised.  expr.args[0] of a call
\* without arguments is an IndexError.
BindKey(expr, table) ==
  IF expr.kind = "Raise" THEN expr
  ELSE IF expr.kind = "Field" THEN [expr EXCEPT !.chain = <<table>> \o @]
  ELSE IF expr.kind = "Call"
  THEN IF expr.args = <<>> THEN Raise("IndexError", "list index out of range", <<>>)
       ELSE IF expr.args[1].kind = "Field"
       THEN [expr EXCEPT !.args[1].chain = <<table>> \o @]
       ELSE ResolutionError(MSG_field_or_call, <<>>)
  ELSE ResolutionError(MSG_field_or_call, <<>>)

\* StandardSelect projecting the alias in place of the requested path.
StandardSelect_AliasAsPath(fields_accessed) ==
  [i \in 1..Len(fields_accessed) |->
     Alias(fields_accessed[i][1], Field(<<fields_accessed[i][1]>>))]

\* the projection of the subquery: one alias per item of fields_accessed
StandardSelect(fields_accessed) ==
  [i \in 1..Len(fields_accessed) |->
     Alias(fields_accessed[i][1], Field(fields_accessed[i][2].value))]

\* StandardJoinExpr with an inner join under the alias of the source table.
StandardJoinExpr_InnerJoin(this, jta, left, right) ==
  JoinExpr(SelectQuery(StandardSelect(jta.fields_accessed),
                       JoinExprTable(Field(<<this.joining_table_name>>)),
                       None),
           "INNER JOIN",
           jta.from_table,
           JoinConstraint(CompareOperation("Eq", left, right), "ON"))

StandardJoinExpr(this, jta, left, right) ==
  JoinExpr(SelectQuery(StandardSelect(jta.fields_accessed),
                       JoinExprTable(Field(<<this.joining_table_name>>)),
                       None),
           "LEFT JOIN",
           jta.to_table,
           JoinConstraint(CompareOperation("Eq", left, right), "ON"))

\* SourceTableKey that never looks at the override.
SourceTableKey_SpecificationOnly(this, override) == this.source_table_key

\* The key of each side: the override when it is given and not empty.
SourceTableKey(this, override) == PyOr(override, Str(this.source_table_key)).value

JoiningTableKey(this, override) == PyOr(override, Str(this.joining_table_key)).value

\* _join_function with the keys parsed before fields_accessed is looked at.
_join_function_KeysFirst(this, o_source, o_joining, jta) ==
  LET left == BindKey(parse_expr(SourceTableKey(this, o_source)), jta.from_table)
  IN IF left.kind = "Raise" THEN left
     ELSE LET right == BindKey(parse_expr(JoiningTableKey(this, o_joining)), jta.to_table)
          IN IF right.kind = "Raise" THEN right
             ELSE IF jta.fields_accessed = <<>>
             THEN ResolutionError(MSG_no_fields, <<jta.to_table>>)
             ELSE StandardJoinExpr(this, jta, left, right)

_join_function(this, o_source, o_joining, jta) ==
  IF jta.fields_accessed = <<>> THEN ResolutionError(MSG_no_fields, <<jta.to_table>>)
  ELSE LET left == BindKey(parse_expr(SourceTableKey(this, o_source)), jta.from_table)
       IN IF left.kind = "Raise" THEN left
          ELSE LET right == BindKey(parse_expr(JoiningTableKey(this, o_joining)), jta.to_table)
               IN IF right.kind = "Raise" THEN right
                  ELSE StandardJoinExpr(this, jta, left, right)

(***************************************************************************)
(* DataWarehouseJoin.join_function_for_experiments: temporal synthesis.    *)
(***************************************************************************)
MSG_only_events == "experiments_optimized is only supported for events table"

MSG_not_enabled == "experiments_optimized is not enabled for this join"

MSG_no_timestamp_key == "experiments_timestamp_key is not set for this join"

\* self.configuration.get(key); the configuration column is nullable, and
\* None has no attribute `get`.
ConfigurationGet(this, key) ==
  IF this.configuration.kind = "None"
  THEN Raise("AttributeError", "'NoneType' object has no attribute 'get'", <<>>)
  ELSE DictGet(this.configuration.value, key)

\* Preconditions with the configuration read before the table name.
Preconditions_ConfigurationFirst(this) ==
  LET optimized == ConfigurationGet(this, S_experiments_optimized)
  IN IF optimized.kind = "Raise" THEN optimized
     ELSE IF ~Truthy(optimized) THEN ResolutionError(MSG_not_enabled, <<>>)
     ELSE IF ~Truthy(ConfigurationGet(this, S_experiments_timestamp_key))
     THEN ResolutionError(MSG_no_timestamp_key, <<>>)
     ELSE IF this.joining_table_name # S_events THEN ResolutionError(MSG_only_events, <<>>)
     ELSE None

\* The three checks made before anything is built: None when they pass,
\* else the exception raised.
Preconditions(this) ==
  IF this.joining_table_name # S_events THEN ResolutionError(MSG_only_events, <<>>)
  ELSE LET optimized == ConfigurationGet(this, S_experiments_optimized)
       IN IF optimized.kind = "Raise" THEN optimized
          ELSE IF ~Truthy(optimized) THEN ResolutionError(MSG_not_enabled, <<>>)
          ELSE IF ~Truthy(ConfigurationGet(this, S_experiments_timestamp_key))
          THEN ResolutionError(MSG_no_timestamp_key, <<>>)
          ELSE None

MarkerPredicate(left) == CompareOperation("Eq", left, Constant(S_feature_flag_called))

\* whether the loop over node.where.exprs appends a comparison for expr
MatchesTimestampKey(expr, timestamp_key) ==
  /\ expr.kind = "CompareOperation"
  /\ expr.op = "GtEq" \/ expr.op = "LtEq"
  /\ expr.left.kind = "Alias"
  /\ IsSubstring(timestamp_key, to_hogql(expr.left.expr))

RECURSIVE TimestampBounds(_, _)
\* the comparisons the loop appends for the list exprs, in order
TimestampBounds(exprs, timestamp_key) ==
  IF exprs = <<>> THEN <<>>
  ELSE (IF MatchesTimestampKey(Head(exprs), timestamp_key)
        THEN <<CompareOperation(Head(exprs).op, Field(<<S_timestamp>>), Head(exprs).right)>>
        ELSE <<>>)
       \o TimestampBounds(Tail(exprs), timestamp_key)

\* hasattr(node.where, "exprs"): the nodes that have a list `exprs`
HasExprs(e) == e.kind = "And" \/ e.kind = "Or"

whereExpr(nd, timestamp_key) ==
  <<MarkerPredicate(Field(<<S_event>>))>>
  \o (IF nd.where.kind # "None" /\ HasExprs(nd.where)
      THEN TimestampBounds(nd.where.exprs, timestamp_key)
      ELSE <<>>)

\* {**fields_accessed, "event": [...], "timestamp": [...], ...}
RequiredColumns == <<S_event, S_timestamp, S_distinct_id, S_properties>>

RECURSIVE WithRequired_KeepRequested(_, _)
\* WithRequired as dict.setdefault: a requested alias keeps its path.
WithRequired_KeepRequested(d, names) ==
  IF names = <<>> THEN d
  ELSE WithRequired_KeepRequested(
         IF HasKey(d, Head(names)) THEN d ELSE DictSet(d, Head(names), List(<<Head(names)>>)),
         Tail(names))

RECURSIVE WithRequired(_, _)
WithRequired(d, names) ==
  IF names = <<>> THEN d
  ELSE WithRequired(DictSet(d, Head(names), List(<<Head(names)>>)), Tail(names))

\* chain if isinstance(chain, list | tuple) else [chain]
AsList(chain) == IF chain.kind = "list" THEN chain.value ELSE <<chain.value>>

TemporalSelect(fields_accessed) ==
  LET items == WithRequired(fields_accessed, RequiredColumns)
  IN [i \in 1..Len(items) |->
        Alias(items[i][1], Field(<<S_events>> \o AsList(items[i][2])))]

\* TemporalConstraint with the joining key kept as one chain element.
TemporalConstraint_KeyNotSplit(this, jta, timestamp_key) ==
  JoinConstraint(
    And(<<MarkerPredicate(Field(<<jta.to_table, S_event>>)),
          CompareOperation("Eq",
                           Field(<<jta.from_table, this.source_table_key>>),
                           Field(<<jta.to_table, this.joining_table_key>>)),
          CompareOperation("GtEq",
                           Field(<<jta.from_table, timestamp_key>>),
                           Field(<<jta.to_table, S_timestamp>>))>>),
    "ON")

TemporalConstraint(this, jta, timestamp_key) ==
  JoinConstraint(
    And(<<MarkerPredicate(Field(<<jta.to_table, S_event>>)),
          CompareOperation("Eq",
                           Field(<<jta.from_table, this.source_table_key>>),
                           Field(<<jta.to_table>> \o Split(this.joining_table_key, "."))),
          CompareOperation("GtEq",
                           Field(<<jta.from_table, timestamp_key>>),
                           Field(<<jta.to_table, S_timestamp>>))>>),
    "ON")

_join_function_for_experiments(this, jta, nd) ==
  LET failed == Preconditions(this)
  IN IF failed.kind = "Raise" THEN failed
     ELSE LET timestamp_key == ConfigurationGet(this, S_experiments_timestamp_key).value
          IN JoinExpr(SelectQuery(TemporalSelect(jta.fields_accessed),
                                  JoinExprTable(Field(<<S_events>>)),
                                  And(whereExpr(nd, timestamp_key))),
                      "ASOF LEFT JOIN",
                      jta.to_table,
                      TemporalConstraint(this, jta, timestamp_key))

(***************************************************************************)
(* The inputs: join specifications, requests and enclosing filters.        *)
(***************************************************************************)
\* the sequences over S of length lo..hi
SeqsOf(S, lo, hi) == UNION {[1..k -> S] : k \in lo..hi}

K_id == <<"i", "d">>

K_person_id == <<"p", "e", "r", "s", "o", "n", "_", "i", "d">>

K_a_b == <<"a", ".", "b">>

K_a_b_c == <<"a", ".", "b", ".", "c">>

K_1 == <<"1">>

K_a_plus_b == <<"a", "+", "b">>

K_c_d == <<"c", ".", "d">>

K_2 == <<"2">>

S_toDateTime == <<"t", "o", "D", "a", "t", "e", "T", "i", "m", "e">>

\* toDateTime(<args>) for every list of at most MaxArgs arguments
CallKeys ==
  {S_toDateTime \o <<"(">> \o Join(args, <<",">>) \o <<")">> :
     args \in SeqsOf({K_a_b, K_1}, 0, MaxArgs)}

\* key expressions: field paths, calls, a constant, an arithmetic expression
Keys == {K_id, K_person_id, K_a_b, K_a_b_c, K_1, K_a_plus_b} \cup CallKeys

\* the override arguments of join_function
Overrides == {None, Str(<<>>), Str(K_c_d), Str(K_2)}

S_persons == <<"p", "e", "r", "s", "o", "n", "s">>

S_orders == <<"o", "r", "d", "e", "r", "s">>

S_total == <<"t", "o", "t", "a", "l">>

S_amount == <<"a", "m", "o", "u", "n", "t">>

S_x == <<"x">>

S_y == <<"y">>

A_from == <<"p">>

A_to == <<"o">>

\* items a request may hold: a one-name path, a two-name path under the
\* alias of a required column, and a path given as a bare str
FieldItems ==
  {<<S_total, List(<<S_total>>)>>,
   <<S_event, List(<<S_x, S_y>>)>>,
   <<S_amount, Str(S_amount)>>}

\* dicts of at most MaxFields items, in every insertion order
FieldsAccessed ==
  {d \in SeqsOf(FieldItems, 0, MaxFields) : \A i, j \in 1..Len(d) : i # j => d[i] # d[j]}

S_created_at == <<"c", "r", "e", "a", "t", "e", "d", "_", "a", "t">>

S_created_at_utc == S_created_at \o <<"_", "u", "t", "c">>

V_T1 == Constant(<<"T", "1">>)

V_T2 == Constant(<<"T", "2">>)

\* a resolved column of the enclosing query: the resolver wraps it in an alias
Column(name) == Alias(name, Field(<<A_from, name>>))

\* top-level operands of the enclosing filter
Conjuncts ==
  {CompareOperation("GtEq", Column(S_created_at), V_T1),
   CompareOperation("LtEq", Column(S_created_at), V_T2),
   CompareOperation("Gt", Column(S_created_at), V_T1),
   CompareOperation("GtEq", Column(S_created_at_utc), V_T1),
   CompareOperation("LtEq", Field(<<A_from, S_created_at>>), V_T2),
   CompareOperation("GtEq",
                    Alias(S_created_at, Call(S_toDateTime, <<Field(<<A_from, S_created_at>>)>>)),
                    V_T2),
   CompareOperation("GtEq", Column(S_amount), V_T1)}

\* node.where: absent, one comparison, a conjunction, a disjunction
Wheres ==
  {None} \cup Conjuncts
  \cup {And(es) : es \in SeqsOf(Conjuncts, 1, MaxConjuncts)}
  \cup {Or(<<a, b>>) : a, b \in {c \in Conjuncts : c.left = Column(S_created_at)}}

\* configuration: NULL, or a dict with or without each recognised key
Configurations ==
  {None}
  \cup {Dict(o \o k) :
          o \in {<<>>, <<<<S_experiments_optimized, Bool(TRUE)>>>>,
                 <<<<S_experiments_optimized, Bool(FALSE)>>>>},
          k \in {<<>>, <<<<S_experiments_timestamp_key, Str(<<>>)>>>>,
                 <<<<S_experiments_timestamp_key, Str(S_created_at)>>>>}}

DataWarehouseJoin(source_table_key, joining_table_name, joining_table_key, configuration) ==
  [source_table_name |-> S_persons,
   source_table_key |-> source_table_key,
   joining_table_name |-> joining_table_name,
   joining_table_key |-> joining_table_key,
   configuration |-> configuration,
   deleted |-> FALSE,
   deleted_at |-> None]

LazyJoinToAdd(from_table, to_table, fields_accessed) ==
  [from_table |-> from_table, to_table |-> to_table, fields_accessed |-> fields_accessed]

NoResult == [kind |-> "NoResult"]

\* the record as it was loaded from its row, at the first reading of the clock
Loaded ==
  /\ now = 0
  /\ saved = self
  /\ soft_deletes = <<>>

\* no invocation is modelled step by step
NoCalls ==
  /\ joins = <<>>
  /\ calls = <<>>

\* the state of the assistant graph
AssistantState(messages, intermediate_steps, plan) ==
  [messages |-> messages, intermediate_steps |-> intermediate_steps, plan |-> plan]

\* no run of the schema generator graph is modelled
NoRun ==
  /\ state = AssistantState(<<>>, None, None)
  /\ at = "next"
  /\ attempts = <<>>

(***************************************************************************)
(* Standard synthesis over every specification, override and request.      *)
(***************************************************************************)
InitStandard ==
  /\ \E sk \in Keys, jk \in Keys :
       self = DataWarehouseJoin(sk, S_orders, jk, Dict(<<>>))
  /\ override_source_table_key \in Overrides
  /\ override_joining_table_key \in Overrides
  /\ \E fa \in FieldsAccessed : join_to_add = LazyJoinToAdd(A_from, A_to, fa)
  /\ node = [where |-> None]
  /\ result = NoResult
  /\ Loaded
  /\ NoCalls
  /\ NoRun

\* one call of the function join_function returns
join_function ==
  /\ result' = _join_function(self, override_source_table_key, override_joining_table_key,
                              join_to_add)
  /\ UNCHANGED <<self, override_source_table_key, override_joining_table_key,
                 join_to_add, node>>
  /\ UNCHANGED <<record_vars, call_vars, graph_vars>>

NextStandard == join_function

SpecStandard == InitStandard /\ [][NextStandard]_vars

(***************************************************************************)
(* Temporal synthesis over every specification, request and filter.        *)
(***************************************************************************)
InitTemporal ==
  /\ \E jn \in {S_events, S_orders}, jk \in {K_person_id, K_a_b}, c \in Configurations :
       self = DataWarehouseJoin(K_id, jn, jk, c)
  /\ override_source_table_key = None
  /\ override_joining_table_key = None
  /\ \E fa \in FieldsAccessed : join_to_add = LazyJoinToAdd(A_from, A_to, fa)
  /\ \E w \in Wheres : node = [where |-> w]
  /\ result = NoResult
  /\ Loaded
  /\ NoCalls
  /\ NoRun

\* join_function_for_experiments that puts "events" before each requested
\* path in the list the request holds, not in a new list.
join_function_for_experiments_PrefixInPlace ==
  /\ result' = _join_function_for_experiments(self, join_to_add, node)
  /\ join_to_add' =
       IF result'.kind = "JoinExpr"
       THEN [join_to_add EXCEPT !.fields_accessed =
               [i \in 1..Len(@) |-> <<@[i][1], List(<<S_events>> \o AsList(@[i][2]))>>]]
       ELSE join_to_add
  /\ UNCHANGED <<self, override_source_table_key, override_joining_table_key, node>>
  /\ UNCHANGED <<record_vars, call_vars, graph_vars>>

\* one call of the function join_function_for_experiments returns
join_function_for_experiments ==
  /\ result' = _join_function_for_experiments(self, join_to_add, node)
  /\ UNCHANGED <<self, override_source_table_key, override_joining_table_key,
                 join_to_add, node>>
  /\ UNCHANGED <<record_vars, call_vars, graph_vars>>

NextTemporal == join_function_for_experiments

SpecTemporal == InitTemporal /\ [][NextTemporal]_vars

(***************************************************************************)
(* The life of one record: the two synthesizers and soft_delete, called in *)
(* any order while the clock advances.                                     *)
(***************************************************************************)
DateTime(t) == [kind |-> "datetime", value |-> t]

\* _soft_delete that sets what it sets only on a record not yet deleted.
_soft_delete_OnlyOnce(this, t) ==
  IF this.deleted THEN this ELSE [this EXCEPT !.deleted = TRUE, !.deleted_at = DateTime(t)]

\* _soft_delete that flips the flag.
_soft_delete_Toggles(this, t) ==
  [this EXCEPT !.deleted = ~@, !.deleted_at = DateTime(t)]

\* the fields soft_delete assigns, t being the reading of the clock
_soft_delete(this, t) ==
  [this EXCEPT !.deleted = TRUE, !.deleted_at = DateTime(t)]

\* one call of soft_delete: the two assignments, then self.save()
soft_delete ==
  /\ Len(soft_deletes) < MaxSoftDeletes
  /\ self' = _soft_delete(self, now)
  /\ saved' = self'
  /\ soft_deletes' = Append(soft_deletes, now)
  /\ UNCHANGED <<override_source_table_key, override_joining_table_key,
                 join_to_add, node, result, now>>
  /\ UNCHANGED <<call_vars, graph_vars>>

\* time passes between two calls
tick ==
  /\ now < MaxClock
  /\ now' = now + 1
  /\ UNCHANGED <<join_vars, saved, soft_deletes, call_vars, graph_vars>>

S_created_at_config ==
  Dict(<<<<S_experiments_optimized, Bool(TRUE)>>,
         <<S_experiments_timestamp_key, Str(S_created_at)>>>>)

K_toDateTime_a_b == S_toDateTime \o <<"(">> \o K_a_b \o <<")">>

Init ==
  /\ \E sk \in {K_id, K_toDateTime_a_b}, jn \in {S_events, S_orders},
        jk \in {K_person_id, K_1},
        c \in {Dict(<<>>), S_created_at_config} :
       self = DataWarehouseJoin(sk, jn, jk, c)
  /\ override_source_table_key \in {None, Str(K_c_d)}
  /\ override_joining_table_key = None
  /\ \E fa \in {<<>>, <<<<S_total, List(<<S_total>>)>>>>, <<<<S_event, List(<<S_x, S_y>>)>>>>} :
       join_to_add = LazyJoinToAdd(A_from, A_to, fa)
  /\ \E w \in {None, And(<<CompareOperation("GtEq", Column(S_created_at), V_T1)>>)} :
       node = [where |-> w]
  /\ result = NoResult
  /\ Loaded
  /\ NoCalls
  /\ NoRun

Next ==
  \/ join_function
  \/ join_function_for_experiments
  \/ soft_delete
  \/ tick

Spec == Init /\ [][Next]_vars

(***************************************************************************)
(* Invocations of the two synthesizers running at once over shared         *)
(* records, one statement group of the closure at a time.                  *)
(***************************************************************************)
CallIds == 1..NumCalls

\* a local name not yet bound
Unbound == [kind |-> "Unbound"]

Idle == [pc |-> "idle"]

\* the frame of one invocation: the function, the record of its closure
\* (this, an index of joins), the arguments, the local names, the value
\* returned or raised; `alone` is what the function returns run on its own
\* from the state of the invocation and `during` the invocations then in
\* flight (both kept only to state the properties)
Frame(fn, pc, this, o_source, o_joining, jta, nd, alone, during) ==
  [fn |-> fn, pc |-> pc, this |-> this,
   override_source_table_key |-> o_source, override_joining_table_key |-> o_joining,
   join_to_add |-> jta, node |-> nd,
   _source_table_key |-> Unbound, _joining_table_key |-> Unbound,
   left |-> Unbound, right |-> Unbound,
   timestamp_key |-> Unbound, whereExpr |-> Unbound,
   result |-> NoResult, alone |-> alone, during |-> during]

InFlight == {d \in CallIds : calls[d].pc \notin {"idle", "done"}}

Done(c) == calls[c].pc = "done"

\* the step of invocation c from position pc to the frame next
Step(c, pc, next) ==
  /\ calls[c].pc = pc
  /\ calls' = [calls EXCEPT ![c] = next]

Return(frame, value) == [frame EXCEPT !.pc = "done", !.result = value]

\* join_function(...)(join_to_add, context, node) is called
invoke_join_function(c) ==
  /\ \E this \in DOMAIN joins, o_source \in {None, Str(K_c_d)} :
       LET jta == LazyJoinToAdd(A_from, A_to, <<<<S_total, List(<<S_total>>)>>>>)
       IN Step(c, "idle",
               Frame("join_function", "keys", this, o_source, None, jta, [where |-> None],
                     _join_function(joins[this], o_source, None, jta), InFlight))
  /\ UNCHANGED <<join_vars, record_vars, joins, graph_vars>>

\* resolve_keys that keeps the chosen keys on the record.
resolve_keys_OnRecord(c) ==
  /\ Step(c, "keys",
          [calls[c] EXCEPT
             !.pc = "fields",
             !._source_table_key = SourceTableKey(joins[calls[c].this], calls[c].override_source_table_key),
             !._joining_table_key = JoiningTableKey(joins[calls[c].this], calls[c].override_joining_table_key)])
  /\ joins' = [joins EXCEPT
                 ![calls[c].this].source_table_key =
                    SourceTableKey(joins[calls[c].this], calls[c].override_source_table_key),
                 ![calls[c].this].joining_table_key =
                    JoiningTableKey(joins[calls[c].this], calls[c].override_joining_table_key)]
  /\ UNCHANGED <<join_vars, record_vars, graph_vars>>

\* _source_table_key = ... ; _joining_table_key = ...
resolve_keys(c) ==
  /\ Step(c, "keys",
          [calls[c] EXCEPT
             !.pc = "fields",
             !._source_table_key = SourceTableKey(joins[calls[c].this], calls[c].override_source_table_key),
             !._joining_table_key = JoiningTableKey(joins[calls[c].this], calls[c].override_joining_table_key)])
  /\ UNCHANGED <<join_vars, record_vars, joins, graph_vars>>

\* if not join_to_add.fields_accessed: raise
check_fields_accessed(c) ==
  /\ Step(c, "fields",
          IF calls[c].join_to_add.fields_accessed = <<>>
          THEN Return(calls[c], ResolutionError(MSG_no_fields, <<calls[c].join_to_add.to_table>>))
          ELSE [calls[c] EXCEPT !.pc = "left"])
  /\ UNCHANGED <<join_vars, record_vars, joins, graph_vars>>

\* left = parse_expr(_source_table_key) and the rewriting of left
bind_left(c) ==
  /\ LET left == BindKey(parse_expr(calls[c]._source_table_key), calls[c].join_to_add.from_table)
     IN Step(c, "left",
             IF left.kind = "Raise" THEN Return(calls[c], left)
             ELSE [calls[c] EXCEPT !.pc = "right", !.left = left])
  /\ UNCHANGED <<join_vars, record_vars, joins, graph_vars>>

\* right = parse_expr(_joining_table_key) and the rewriting of right
bind_right(c) ==
  /\ LET right == BindKey(parse_expr(calls[c]._joining_table_key), calls[c].join_to_add.to_table)
     IN Step(c, "right",
             IF right.kind = "Raise" THEN Return(calls[c], right)
             ELSE [calls[c] EXCEPT !.pc = "build", !.right = right])
  /\ UNCHANGED <<join_vars, record_vars, joins, graph_vars>>

\* return ast.JoinExpr(...)
build_join(c) ==
  /\ Step(c, "build",
          Return(calls[c], StandardJoinExpr(joins[calls[c].this], calls[c].join_to_add,
                                            calls[c].left, calls[c].right)))
  /\ UNCHANGED <<join_vars, record_vars, joins, graph_vars>>

\* join_function_for_experiments()(join_to_add, context, node) is called
invoke_join_function_for_experiments(c) ==
  /\ \E this \in DOMAIN joins,
        w \in {None, And(<<CompareOperation("GtEq", Column(S_created_at), V_T1)>>)} :
       LET jta == LazyJoinToAdd(A_from, A_to, <<<<S_event, List(<<S_x, S_y>>)>>>>)
       IN Step(c, "idle",
               Frame("join_function_for_experiments", "checks", this, None, None, jta,
                     [where |-> w],
                     _join_function_for_experiments(joins[this], jta, [where |-> w]), InFlight))
  /\ UNCHANGED <<join_vars, record_vars, joins, graph_vars>>

\* the three checks and timestamp_key = self.configuration.get(...)
check_preconditions(c) ==
  /\ LET failed == Preconditions(joins[calls[c].this])
     IN Step(c, "checks",
             IF failed.kind = "Raise" THEN Return(calls[c], failed)
             ELSE [calls[c] EXCEPT
                     !.pc = "where",
                     !.timestamp_key =
                        ConfigurationGet(joins[calls[c].this], S_experiments_timestamp_key).value])
  /\ UNCHANGED <<join_vars, record_vars, joins, graph_vars>>

\* whereExpr = [marker] and the loop over node.where.exprs
collect_bounds(c) ==
  /\ Step(c, "where",
          [calls[c] EXCEPT !.pc = "build_asof",
                           !.whereExpr = whereExpr(calls[c].node, calls[c].timestamp_key)])
  /\ UNCHANGED <<join_vars, record_vars, joins, graph_vars>>

\* return ast.JoinExpr(...)
build_asof_join(c) ==
  /\ Step(c, "build_asof",
          Return(calls[c],
                 JoinExpr(SelectQuery(TemporalSelect(calls[c].join_to_add.fields_accessed),
                                      JoinExprTable(Field(<<S_events>>)),
                                      And(calls[c].whereExpr)),
                          "ASOF LEFT JOIN",
                          calls[c].join_to_add.to_table,
                          TemporalConstraint(joins[calls[c].this], calls[c].join_to_add,
                                             calls[c].timestamp_key))))
  /\ UNCHANGED <<join_vars, record_vars, joins, graph_vars>>

InitConcurrent ==
  /\ \E c1 \in {Dict(<<>>), S_created_at_config} :
       joins = <<DataWarehouseJoin(K_id, S_events, K_person_id, c1),
                 DataWarehouseJoin(K_toDateTime_a_b, S_orders, K_1, Dict(<<>>))>>
  /\ calls = [c \in CallIds |-> Idle]
  /\ self = joins[1]
  /\ override_source_table_key = None
  /\ override_joining_table_key = None
  /\ join_to_add = LazyJoinToAdd(A_from, A_to, <<>>)
  /\ node = [where |-> None]
  /\ result = NoResult
  /\ Loaded
  /\ NoRun

NextConcurrent ==
  \/ \E c \in CallIds : invoke_join_function(c)
  \/ \E c \in CallIds : resolve_keys(c)
  \/ \E c \in CallIds : check_fields_accessed(c)
  \/ \E c \in CallIds : bind_left(c)
  \/ \E c \in CallIds : bind_right(c)
  \/ \E c \in CallIds : build_join(c)
  \/ \E c \in CallIds : invoke_join_function_for_experiments(c)
  \/ \E c \in CallIds : check_preconditions(c)
  \/ \E c \in CallIds : collect_bounds(c)
  \/ \E c \in CallIds : build_asof_join(c)

SpecConcurrent == InitConcurrent /\ [][NextConcurrent]_vars

(***************************************************************************)
(* ee.hogai.schema_generator.nodes: the generator node, its router and the *)
(* tools node, run as the graph runs them (generator, router, then the     *)
(* tools node and the generator again, or the next node).                  *)
(***************************************************************************)
\* a partial state: None in a field leaves the field of the state as it is
PartialAssistantState(messages, intermediate_steps, plan) ==
  [messages |-> messages, intermediate_steps |-> intermediate_steps, plan |-> plan]

\* the state after a node returned a partial state: the messages are added,
\* the other fields replaced
Updated(st, partial) ==
  [messages |-> IF partial.messages = None THEN st.messages
                ELSE st.messages \o partial.messages.value,
   intermediate_steps |-> IF partial.intermediate_steps = None THEN st.intermediate_steps
                          ELSE partial.intermediate_steps,
   plan |-> IF partial.plan = None THEN st.plan ELSE partial.plan]

AgentAction(tool, tool_input, log) ==
  [kind |-> "AgentAction", tool |-> tool, tool_input |-> tool_input, log |-> log]

FailureMessage == [kind |-> "FailureMessage"]

VisualizationMessage(plan, answer) ==
  [kind |-> "VisualizationMessage", plan |-> plan, answer |-> answer]

\* what chain.invoke does: it returns the parsed output, or the parser raises
ParsedOutput(query) == [kind |-> "SchemaGeneratorOutput", query |-> query]

PydanticOutputParserException(llm_output, validation_message) ==
  [kind |-> "PydanticOutputParserException",
   llm_output |-> llm_output, validation_message |-> validation_message]

\* state.intermediate_steps or []
StepsOf(st) == PyOr(st.intermediate_steps, List(<<>>)).value

\* SchemaGeneratorNode._run_with_prompt, outcome being what chain.invoke did
_run_with_prompt(st, outcome) ==
  LET generated_plan == PyOr(st.plan, Str(<<>>))
      intermediate_steps == StepsOf(st)
  IN IF outcome.kind = "PydanticOutputParserException"
     THEN IF Len(intermediate_steps) >= 2
          THEN PartialAssistantState(List(<<FailureMessage>>), List(<<>>), Str(<<>>))
          ELSE PartialAssistantState(
                 None,
                 List(Append(intermediate_steps,
                             <<AgentAction("handle_incorrect_response",
                                           outcome.llm_output, outcome.validation_message),
                               None>>)),
                 None)
     ELSE PartialAssistantState(
            List(<<VisualizationMessage(generated_plan, outcome.query)>>),
            List(<<>>), Str(<<>>))

\* SchemaGeneratorNode.router
router(st) == IF Truthy(st.intermediate_steps) THEN "tools" ELSE "next"

\* the failover prompt formatted with the output and the exception message
FailoverPrompt(output, exception_message) ==
  Str(<<"output", output, "exception_message", exception_message>>)

\* SchemaGeneratorToolsNode.run
run(st) ==
  LET intermediate_steps == StepsOf(st)
  IN IF intermediate_steps = <<>> THEN PartialAssistantState(None, None, None)
     ELSE LET action == intermediate_steps[Len(intermediate_steps)][1]
          IN PartialAssistantState(
               None,
               List(Append(SubSeq(intermediate_steps, 1, Len(intermediate_steps) - 1),
                           <<action, FailoverPrompt(action.tool_input, action.log)>>)),
               None)

\* what the model may answer: an output that parses, or one of the outputs
\* the parser rejects
Outcomes ==
  {ParsedOutput("query")}
  \cup {PydanticOutputParserException(o, v) :
          o \in {"output 1", "output 2"}, v \in {"validation 1", "validation 2"}}

InitGenerator ==
  /\ \E steps \in {None, List(<<>>)}, plan \in {None, Str(<<>>), Str(<<"p", "l", "a", "n">>)} :
       state = AssistantState(<<>>, steps, plan)
  /\ at = "generator"
  /\ attempts = <<>>
  /\ self = DataWarehouseJoin(K_id, S_orders, K_person_id, Dict(<<>>))
  /\ override_source_table_key = None
  /\ override_joining_table_key = None
  /\ join_to_add = LazyJoinToAdd(A_from, A_to, <<>>)
  /\ node = [where |-> None]
  /\ result = NoResult
  /\ Loaded
  /\ NoCalls

\* the generator node runs: one generation attempt
generator_node ==
  /\ at = "generator"
  /\ \E outcome \in Outcomes :
       /\ state' = Updated(state, _run_with_prompt(state, outcome))
       /\ attempts' = Append(attempts, outcome.kind)
  /\ at' = "router"
  /\ UNCHANGED <<join_vars, record_vars, call_vars>>

\* the conditional edge after the generator
router_edge ==
  /\ at = "router"
  /\ at' = router(state)
  /\ UNCHANGED <<state, attempts, join_vars, record_vars, call_vars>>

\* the tools node runs, and the run goes back to the generator
tools_node ==
  /\ at = "tools"
  /\ state' = Updated(state, run(state))
  /\ at' = "generator"
  /\ UNCHANGED <<attempts, join_vars, record_vars, call_vars>>

NextGenerator ==
  \/ generator_node
  \/ router_edge
  \/ tools_node

SpecGenerator == InitGenerator /\ [][NextGenerator]_vars

(***************************************************************************)
(* Vocabulary of the properties.                                           *)
(***************************************************************************)
Called == result # NoResult

Returned == result.kind = "JoinExpr"

\* the kinds of failure, by the exception that carries them
IsEmptyProjection(r) == r = ResolutionError(MSG_no_fields, <<join_to_add.to_table>>)

IsUnsupportedKeyShape(r) == r = ResolutionError(MSG_field_or_call, <<>>)

IsUnsupportedJoiningTable(r) == r = ResolutionError(MSG_only_events, <<>>)

IsMisconfiguredExperimentJoin(r) ==
  r = ResolutionError(MSG_not_enabled, <<>>) \/ r = ResolutionError(MSG_no_timestamp_key, <<>>)

\* the parsed key expression of each side of the call in the state
SourceKeyExpr == parse_expr(SourceTableKey(self, override_source_table_key))

JoiningKeyExpr == parse_expr(JoiningTableKey(self, override_joining_table_key))

IsFieldPath(e) == e.kind = "Field"

IsCallOnFieldPath(e) == e.kind = "Call" /\ Len(e.args) >= 1 /\ e.args[1].kind = "Field"

IsSingleArgCallOnFieldPath(e) == IsCallOnFieldPath(e) /\ Len(e.args) = 1

SupportedKey(e) == IsFieldPath(e) \/ IsCallOnFieldPath(e)

\* a supported key with the alias t put before its field path
Qualified(e, t) ==
  IF IsFieldPath(e) THEN Field(<<t>> \o e.chain)
  ELSE Call(e.name, <<Field(<<t>> \o e.args[1].chain)>> \o Tail(e.args))

\* the path a request asks for: a list of names, or one name
PathOf(v) == IF v.kind = "list" THEN v.value ELSE <<v.value>>

\* the elements of a sequence
Range(seq) == {seq[i] : i \in 1..Len(seq)}

(***************************************************************************)
(* Standard synthesis: C1, C2, C5, C6.                                     *)
(***************************************************************************)
\* C1 as stated: standard synthesis returns a join only when each key is a
\* bare field path or a call with exactly one argument, a bare field path;
\* a call with two or more arguments is rejected.
C1_OnlySingleArgumentCallsAccepted ==
  Returned =>
    /\ IsFieldPath(SourceKeyExpr) \/ IsSingleArgCallOnFieldPath(SourceKeyExpr)
    /\ IsFieldPath(JoiningKeyExpr) \/ IsSingleArgCallOnFieldPath(JoiningKeyExpr)

\* C1 amended: with fields requested, standard synthesis returns a join
\* exactly when each key is a bare field path or a call whose first argument
\* is a bare field path, whatever the number of its arguments; the returned
\* ON comparison holds each key with its table alias before that field path,
\* every further argument unchanged.
C1_AcceptsFieldPathOrCallOnFieldPath ==
  Called /\ join_to_add.fields_accessed # <<>> =>
    /\ Returned <=> SupportedKey(SourceKeyExpr) /\ SupportedKey(JoiningKeyExpr)
    /\ Returned =>
         /\ result.constraint.expr.left = Qualified(SourceKeyExpr, join_to_add.from_table)
         /\ result.constraint.expr.right = Qualified(JoiningKeyExpr, join_to_add.to_table)

\* C1 witness: a join was returned for a source key that is a call with two
\* arguments.
C1_TwoArgumentCallAccepted ==
  /\ Returned
  /\ SourceKeyExpr.kind = "Call"
  /\ Len(SourceKeyExpr.args) = 2
  /\ Len(result.constraint.expr.left.args) = 2

\* C2 as stated: with fields requested, a key of either side that is neither
\* a field path nor a call whose first argument is a field path makes
\* standard synthesis fail with UnsupportedKeyShape, and with nothing else.
C2_UnsupportedShapeRaisesUnsupportedKeyShape ==
  /\ Called
  /\ join_to_add.fields_accessed # <<>>
  /\ ~SupportedKey(SourceKeyExpr) \/ ~SupportedKey(JoiningKeyExpr)
  => IsUnsupportedKeyShape(result)

\* C5 as stated: the join returned by standard synthesis is a LEFT JOIN
\* aliased toTable, over a subquery that selects from joiningTableName and
\* projects each requested path qualified by the joining table name under
\* its alias, ON <fromTable>.<sourceKey> = <toTable>.<joiningKey>.
C5_ProjectionQualifiedByJoiningTable ==
  Returned =>
    /\ result.join_type = "LEFT JOIN"
    /\ result.alias = join_to_add.to_table
    /\ result.table.select_from = JoinExprTable(Field(<<self.joining_table_name>>))
    /\ result.table.select =
         [i \in 1..Len(join_to_add.fields_accessed) |->
            Alias(join_to_add.fields_accessed[i][1],
                  Field(<<self.joining_table_name>>
                        \o PathOf(join_to_add.fields_accessed[i][2])))]
    /\ result.constraint =
         JoinConstraint(CompareOperation("Eq",
                                         Qualified(SourceKeyExpr, join_to_add.from_table),
                                         Qualified(JoiningKeyExpr, join_to_add.to_table)),
                        "ON")

\* C5 amended: the join returned by standard synthesis is a LEFT JOIN aliased
\* toTable, over a subquery that selects from joiningTableName and projects
\* each requested path, as requested and not qualified by a table name, under
\* its alias, ON <fromTable>.<sourceKey> = <toTable>.<joiningKey>.
C5_ProjectionAsRequested ==
  Returned =>
    /\ result.join_type = "LEFT JOIN"
    /\ result.alias = join_to_add.to_table
    /\ result.table.select_from = JoinExprTable(Field(<<self.joining_table_name>>))
    /\ result.table.select =
         [i \in 1..Len(join_to_add.fields_accessed) |->
            Alias(join_to_add.fields_accessed[i][1],
                  Field(join_to_add.fields_accessed[i][2].value))]
    /\ result.constraint =
         JoinConstraint(CompareOperation("Eq",
                                         Qualified(SourceKeyExpr, join_to_add.from_table),
                                         Qualified(JoiningKeyExpr, join_to_add.to_table)),
                        "ON")

\* C5 witness: the specification (persons, id, orders, person_id) with
\* fieldsAccessed = {total: [total]} and no override returned
\* LEFT JOIN (SELECT total AS total FROM orders) AS o ON p.id = o.person_id.
C5_ExampleA ==
  /\ self.source_table_key = K_id
  /\ self.joining_table_key = K_person_id
  /\ override_source_table_key = None
  /\ override_joining_table_key = None
  /\ join_to_add.fields_accessed = <<<<S_total, List(<<S_total>>)>>>>
  /\ result =
       JoinExpr(SelectQuery(<<Alias(S_total, Field(<<S_total>>))>>,
                            JoinExprTable(Field(<<S_orders>>)),
                            None),
                "LEFT JOIN",
                A_to,
                JoinConstraint(CompareOperation("Eq",
                                                Field(<<A_from, K_id>>),
                                                Field(<<A_to, K_person_id>>)),
                               "ON"))

\* C6: standard synthesis called with an empty fieldsAccessed fails with
\* EmptyProjection, whatever the keys and the overrides are.
C6_EmptyFieldsAccessedRaisesEmptyProjection ==
  Called /\ join_to_add.fields_accessed = <<>> => IsEmptyProjection(result)

\* C6 witness: EmptyProjection was raised although the source key, a
\* constant, would itself be rejected.
C6_EmptyProjectionBeforeKeyCheck ==
  /\ IsEmptyProjection(result)
  /\ join_to_add.fields_accessed = <<>>
  /\ SourceKeyExpr.kind = "Constant"

(***************************************************************************)
(* Temporal synthesis: C3, C4, C7, C8, C9, C10.                            *)
(***************************************************************************)
\* what the configuration of the specification says
ConfiguredOptimized ==
  /\ self.configuration.kind = "dict"
  /\ DictGet(self.configuration.value, S_experiments_optimized) = Bool(TRUE)

HasTimestampKey ==
  /\ self.configuration.kind = "dict"
  /\ DictGet(self.configuration.value, S_experiments_timestamp_key).kind = "str"
  /\ DictGet(self.configuration.value, S_experiments_timestamp_key).value # <<>>

TimestampKey == DictGet(self.configuration.value, S_experiments_timestamp_key).value

RequiredNames == {S_event, S_timestamp, S_distinct_id, S_properties}

RECURSIVE ReferencesKey(_, _)
\* whether an operand refers to the column named key
ReferencesKey(e, key) ==
  IF e.kind = "Alias" THEN ReferencesKey(e.expr, key)
  ELSE IF e.kind = "Field" THEN key \in Range(e.chain)
  ELSE IF e.kind = "Call" THEN \E i \in 1..Len(e.args) : ReferencesKey(e.args[i], key)
  ELSE FALSE

\* the top-level conjuncts of a filter: those of a conjunction, else the
\* filter itself
TopLevelConjuncts(w) ==
  IF w.kind = "None" THEN <<>> ELSE IF w.kind = "And" THEN w.exprs ELSE <<w>>

RECURSIVE ExpectedBounds(_, _)
\* a timestamp comparison for every >= or <= conjunct on the key, in order
ExpectedBounds(cs, key) ==
  IF cs = <<>> THEN <<>>
  ELSE (IF /\ Head(cs).kind = "CompareOperation"
           /\ Head(cs).op \in {"GtEq", "LtEq"}
           /\ ReferencesKey(Head(cs).left, key)
        THEN <<CompareOperation(Head(cs).op, Field(<<S_timestamp>>), Head(cs).right)>>
        ELSE <<>>)
       \o ExpectedBounds(Tail(cs), key)

\* C3 as stated: when the enclosing filter is the single comparison
\* <timestampKey> >= V, the filter of the synthesized subquery includes
\* timestamp >= V.
C3_SingleComparisonFilterIsCarried ==
  /\ Returned
  /\ node.where.kind = "CompareOperation"
  /\ node.where.op = "GtEq"
  /\ node.where.left = Column(TimestampKey)
  => CompareOperation("GtEq", Field(<<S_timestamp>>), node.where.right)
       \in Range(result.table.where.exprs)

\* C4 as stated: the filter of the synthesized subquery is the marker-event
\* predicate followed by one timestamp comparison for each top-level conjunct
\* of the enclosing filter that is a >= or <= comparison whose left side
\* references the timestamp key, in order, with its operator and right
\* operand; every other conjunct contributes nothing.
C4_SubqueryFilterIsMarkerThenBounds ==
  Returned =>
    result.table.where =
      And(<<CompareOperation("Eq", Field(<<S_event>>), Constant(S_feature_flag_called))>>
          \o ExpectedBounds(TopLevelConjuncts(node.where), TimestampKey))

\* C7: temporal synthesis on a specification whose joiningTableName is not
\* "events" fails with UnsupportedJoiningTable, whatever the configuration.
C7_OtherJoiningTableRaisesUnsupportedJoiningTable ==
  Called /\ self.joining_table_name # S_events => IsUnsupportedJoiningTable(result)

\* C7 witness: UnsupportedJoiningTable was raised for a specification whose
\* configuration is complete.
C7_TableCheckedBeforeConfiguration ==
  /\ IsUnsupportedJoiningTable(result)
  /\ ConfiguredOptimized
  /\ HasTimestampKey

\* C8 as stated: on the events table, temporal synthesis returns a join when
\* experimentsOptimized is true and experimentsTimestampKey is a non-empty
\* string, and fails with MisconfiguredExperimentJoin in every other case.
C8_MisconfiguredUnlessOptimizedWithTimestampKey ==
  Called /\ self.joining_table_name = S_events =>
    IF ConfiguredOptimized /\ HasTimestampKey THEN Returned
    ELSE IsMisconfiguredExperimentJoin(result)

\* C9: the ON constraint of temporal synthesis is a conjunction of exactly
\* three comparisons, in this order: toTable.event == '$feature_flag_called';
\* fromTable.<sourceTableKey> == toTable.<joiningTableKey>, the joining key
\* split on '.' into one chain element per identifier;
\* fromTable.<timestampKey> >= toTable.timestamp.
C9_OnConstraintHasThreeComparisons ==
  Returned =>
    LET on == result.constraint.expr
    IN /\ result.constraint.constraint_type = "ON"
       /\ on.kind = "And"
       /\ Len(on.exprs) = 3
       /\ on.exprs[1] = CompareOperation("Eq", Field(<<join_to_add.to_table, S_event>>),
                                         Constant(S_feature_flag_called))
       /\ on.exprs[2].kind = "CompareOperation"
       /\ on.exprs[2].op = "Eq"
       /\ on.exprs[2].left = Field(<<join_to_add.from_table, self.source_table_key>>)
       /\ on.exprs[2].right.kind = "Field"
       /\ Head(on.exprs[2].right.chain) = join_to_add.to_table
       /\ Join(Tail(on.exprs[2].right.chain), <<".">>) = self.joining_table_key
       /\ \A part \in Range(Tail(on.exprs[2].right.chain)) : "." \notin Range(part)
       /\ on.exprs[3] = CompareOperation("GtEq",
                                         Field(<<join_to_add.from_table, TimestampKey>>),
                                         Field(<<join_to_add.to_table, S_timestamp>>))

\* C9 witness: a join was returned for the joining key a.b, which holds a
\* separator.
C9_DottedJoiningKeySplit ==
  /\ Returned
  /\ result.join_type = "ASOF LEFT JOIN"
  /\ self.joining_table_key = K_a_b
  /\ result.constraint.expr.exprs[2].right = Field(<<A_to, <<"a">>, <<"b">>>>)

\* C10 as stated: the subquery of temporal synthesis selects from events and
\* projects every (alias, path) pair of fieldsAccessed and the four columns
\* event, timestamp, distinct_id and properties, every path under `events`.
C10_ProjectsEveryRequestedPair ==
  Returned =>
    /\ result.table.select_from = JoinExprTable(Field(<<S_events>>))
    /\ \A item \in Range(join_to_add.fields_accessed) :
         Alias(item[1], Field(<<S_events>> \o PathOf(item[2]))) \in Range(result.table.select)
    /\ \A name \in RequiredNames :
         Alias(name, Field(<<S_events, name>>)) \in Range(result.table.select)
    /\ \A a \in Range(result.table.select) : a.kind = "Alias" /\ Head(a.expr.chain) = S_events

\* C10 amended: the subquery of temporal synthesis selects from events and
\* projects every (alias, path) pair of fieldsAccessed whose alias is not the
\* name of one of the four columns event, timestamp, distinct_id and
\* properties, and these four columns, and nothing else, every path under
\* `events`; the four columns are there for every fieldsAccessed.
C10_ProjectsRequestedPairsAndRequiredColumns ==
  Returned =>
    /\ result.table.select_from = JoinExprTable(Field(<<S_events>>))
    /\ Range(result.table.select) =
         {Alias(item[1], Field(<<S_events>> \o PathOf(item[2]))) :
            item \in {it \in Range(join_to_add.fields_accessed) : it[1] \notin RequiredNames}}
         \cup {Alias(name, Field(<<S_events, name>>)) : name \in RequiredNames}
    /\ \A a \in Range(result.table.select) : a.kind = "Alias" /\ Head(a.expr.chain) = S_events

\* C10 witness: a join was returned for a request of total and, under the
\* alias event, of the path x.y: its subquery projects events.total and the
\* four columns, events.event among them, five entries in all.
C10_RequestedAndRequiredProjected ==
  /\ Returned
  /\ join_to_add.fields_accessed =
       <<<<S_total, List(<<S_total>>)>>, <<S_event, List(<<S_x, S_y>>)>>>>
  /\ Len(result.table.select) = 5
  /\ Alias(S_total, Field(<<S_events, S_total>>)) \in Range(result.table.select)
  /\ Alias(S_event, Field(<<S_events, S_event>>)) \in Range(result.table.select)

(***************************************************************************)
(* Key rewriting and key choice in standard synthesis: C11, C12, C18.      *)
(***************************************************************************)
\* the text of the key of each side of the call in the state
SourceKeyText == SourceTableKey(self, override_source_table_key)

JoiningKeyText == JoiningTableKey(self, override_joining_table_key)

\* whether chain is the path of names written in text, after the alias t
IsPathUnderAlias(chain, text, t, parsed) ==
  /\ Len(chain) = Len(parsed.chain) + 1
  /\ Head(chain) = t
  /\ Tail(chain) = parsed.chain
  /\ Join(Tail(chain), <<".">>) = text

\* C11: a key that is a field path is rewritten by putting the table alias
\* before the path, every name of the path kept in its order (one element
\* more than the path had); the source key takes fromTable and the joining
\* key takes toTable.
C11_FieldPathKeyPrependsAlias ==
  Returned =>
    /\ IsFieldPath(SourceKeyExpr) =>
         /\ result.constraint.expr.left.kind = "Field"
         /\ IsPathUnderAlias(result.constraint.expr.left.chain, SourceKeyText,
                             join_to_add.from_table, SourceKeyExpr)
    /\ IsFieldPath(JoiningKeyExpr) =>
         /\ result.constraint.expr.right.kind = "Field"
         /\ IsPathUnderAlias(result.constraint.expr.right.chain, JoiningKeyText,
                             join_to_add.to_table, JoiningKeyExpr)

\* C11 witness: a join was returned for the source key a.b.c and the joining
\* key person_id: its ON comparison is p.a.b.c = o.person_id.
C11_ThreeNamePathRewritten ==
  /\ Returned
  /\ SourceKeyText = K_a_b_c
  /\ JoiningKeyText = K_person_id
  /\ result.constraint.expr.left = Field(<<A_from, <<"a">>, <<"b">>, <<"c">>>>)
  /\ result.constraint.expr.right = Field(<<A_to, K_person_id>>)

\* whether call `out` is call `key` with the alias t before the path of its
\* first argument and nothing else changed
IsCallUnderAlias(out, key, t) ==
  /\ out.kind = "Call"
  /\ out.name = key.name
  /\ Len(out.args) = Len(key.args)
  /\ out.args[1].kind = "Field"
  /\ out.args[1].chain = <<t>> \o key.args[1].chain
  /\ \A i \in 2..Len(key.args) : out.args[i] = key.args[i]

\* C12: a key that is a call is rewritten by putting the table alias before
\* the field path of its first argument only; the function name and every
\* other argument are unchanged.
C12_CallKeyPrependsAliasToFirstArgument ==
  Returned =>
    /\ SourceKeyExpr.kind = "Call" =>
         IsCallUnderAlias(result.constraint.expr.left, SourceKeyExpr, join_to_add.from_table)
    /\ JoiningKeyExpr.kind = "Call" =>
         IsCallUnderAlias(result.constraint.expr.right, JoiningKeyExpr, join_to_add.to_table)

\* C12 witness: a join was returned for the source key toDateTime(a.b) and
\* the joining key toDateTime(a.b,a.b): its ON comparison is
\* toDateTime(p.a.b) = toDateTime(o.a.b, a.b).
C12_CallKeysRewritten ==
  /\ Returned
  /\ result.constraint.expr.left = Call(S_toDateTime, <<Field(<<A_from, <<"a">>, <<"b">>>>)>>)
  /\ result.constraint.expr.right =
       Call(S_toDateTime, <<Field(<<A_to, <<"a">>, <<"b">>>>), Field(<<<<"a">>, <<"b">>>>)>>)

\* the side of the ON comparison built from the key text, None when the text
\* is no supported key
ExpectedSide(text, t) ==
  IF SupportedKey(parse_expr(text)) THEN Qualified(parse_expr(text), t) ELSE None

\* C18 as stated: each side of the ON equality is built from the override of
\* that side when one is supplied, and from the key of the specification
\* when none is, the left side under fromTable and the right under toTable.
C18_SuppliedOverrideIsUsed ==
  Returned =>
    /\ result.constraint.expr.left =
         ExpectedSide(IF override_source_table_key # None
                      THEN override_source_table_key.value ELSE self.source_table_key,
                      join_to_add.from_table)
    /\ result.constraint.expr.right =
         ExpectedSide(IF override_joining_table_key # None
                      THEN override_joining_table_key.value ELSE self.joining_table_key,
                      join_to_add.to_table)

\* C18 amended: each side of the ON equality is built from the override of
\* that side when one is supplied and is not the empty string, and from the
\* key of the specification when none is supplied or the override is the
\* empty string; the choice of one side does not depend on the other; the
\* left side is under fromTable and the right under toTable.
C18_NonEmptyOverrideIsUsed ==
  Returned =>
    /\ result.constraint.expr.left =
         ExpectedSide(IF override_source_table_key \notin {None, Str(<<>>)}
                      THEN override_source_table_key.value ELSE self.source_table_key,
                      join_to_add.from_table)
    /\ result.constraint.expr.right =
         ExpectedSide(IF override_joining_table_key \notin {None, Str(<<>>)}
                      THEN override_joining_table_key.value ELSE self.joining_table_key,
                      join_to_add.to_table)

\* C18 witness: a join was returned for the source override c.d with no
\* joining override, the specification holding the keys id and person_id:
\* its ON comparison is p.c.d = o.person_id.
C18_SourceOverrideOnly ==
  /\ Returned
  /\ self.source_table_key = K_id
  /\ self.joining_table_key = K_person_id
  /\ override_source_table_key = Str(K_c_d)
  /\ override_joining_table_key = None
  /\ result.constraint.expr.left = Field(<<A_from, <<"c">>, <<"d">>>>)
  /\ result.constraint.expr.right = Field(<<A_to, K_person_id>>)

(***************************************************************************)
(* The projection of temporal synthesis: C20.                              *)
(***************************************************************************)
\* C20: the projection of temporal synthesis has exactly one entry for each
\* alias of keys(fieldsAccessed) and of the four required names; under an
\* alias that is a required name it holds the required column events.<name>,
\* so a different path requested under that alias is not projected.
C20_OneEntryPerAliasRequiredWins ==
  Returned =>
    LET select == result.table.select
        aliases == {it[1] : it \in Range(join_to_add.fields_accessed)} \cup RequiredNames
    IN /\ {select[i].alias : i \in 1..Len(select)} = aliases
       /\ Len(select) = Cardinality(aliases)
       /\ \A i \in 1..Len(select) :
            select[i].alias \in RequiredNames =>
              select[i].expr = Field(<<S_events, select[i].alias>>)
       /\ \A it \in Range(join_to_add.fields_accessed) :
            it[1] \in RequiredNames /\ PathOf(it[2]) # <<it[1]>> =>
              Alias(it[1], Field(<<S_events>> \o PathOf(it[2]))) \notin Range(select)

\* C20 witness: a join was returned for a request of the path x.y under the
\* alias event: the projection has four entries and events.event under event.
C20_RequestedEventReplaced ==
  /\ Returned
  /\ join_to_add.fields_accessed = <<<<S_event, List(<<S_x, S_y>>)>>>>
  /\ Len(result.table.select) = 4
  /\ result.table.select[1] = Alias(S_event, Field(<<S_events, S_event>>))

(***************************************************************************)
(* The join node of either synthesizer: C13.                               *)
(***************************************************************************)
\* C13: a join node returned by the standard synthesizer has the join type
\* LEFT JOIN and one returned by the temporal synthesizer the join type
\* ASOF LEFT JOIN; either has the alias toTable of the request and an ON
\* constraint.
C13_LeftJoinUnderToTableWithOn ==
  [][/\ join_function /\ Returned' =>
          /\ result'.join_type = "LEFT JOIN"
          /\ result'.alias = join_to_add.to_table
          /\ result'.constraint.kind = "JoinConstraint"
          /\ result'.constraint.constraint_type = "ON"
     /\ join_function_for_experiments /\ Returned' =>
          /\ result'.join_type = "ASOF LEFT JOIN"
          /\ result'.alias = join_to_add.to_table
          /\ result'.constraint.kind = "JoinConstraint"
          /\ result'.constraint.constraint_type = "ON"]_vars

\* C13 witness: the temporal synthesizer returned a join node ASOF LEFT JOIN
\* under the alias o with an ON constraint.
C13_AsofLeftJoinReturned ==
  /\ Returned
  /\ result.join_type = "ASOF LEFT JOIN"
  /\ result.alias = A_to
  /\ result.constraint.constraint_type = "ON"
  /\ result.constraint.expr.kind = "And"

(***************************************************************************)
(* soft_delete: C14, C15.                                                  *)
(***************************************************************************)
\* C14: deleted never goes from true to false, whatever is called; a call of
\* soft_delete leaves it true, the second like the first; and as long as the
\* record is not deleted its deleted_at is unset.
C14_DeletedIsOneWay ==
  [][/\ self.deleted => self'.deleted
     /\ soft_delete => self'.deleted
     /\ ~self.deleted => self.deleted_at = None
     /\ ~self'.deleted => self'.deleted_at = None]_vars

\* C14 witness: soft_delete was called twice and then a synthesizer, and the
\* record is deleted.
C14_StillDeletedAfterSecondCall ==
  /\ Len(soft_deletes) = 2
  /\ Called
  /\ self.deleted

\* C15: after any calls of soft_delete, deleted_at is the clock reading of
\* the last of them, on the record and on its row alike.
C15_DeletedAtIsTimeOfLastCall ==
  soft_deletes # <<>> =>
    /\ self.deleted_at = DateTime(soft_deletes[Len(soft_deletes)])
    /\ saved = self

\* C15 witness: soft_delete was called at 0 and again at 2, and deleted_at
\* is 2 on the record and on its row.
C15_SecondCallMovesDeletedAt ==
  /\ soft_deletes = <<0, 2>>
  /\ self.deleted_at = DateTime(2)
  /\ saved.deleted_at = DateTime(2)

(***************************************************************************)
(* What a synthesis call leaves alone: C17.                                *)
(***************************************************************************)
\* C17: a call of either synthesizer, returning a join node or raising,
\* leaves the record (its keys, table names, configuration, deleted and
\* deleted_at), its row, the request, the overrides and the enclosing query
\* as they were.
C17_SynthesisChangesNoArgument ==
  [][join_function \/ join_function_for_experiments =>
       /\ self' = self
       /\ saved' = saved
       /\ join_to_add' = join_to_add
       /\ node' = node
       /\ override_source_table_key' = override_source_table_key
       /\ override_joining_table_key' = override_joining_table_key]_vars

\* C17 witness: a call raised over an empty request and a record that is
\* still not deleted, the row equal to the record.
C17_RaisedOnUntouchedRecord ==
  /\ result.kind = "Raise"
  /\ join_to_add.fields_accessed = <<>>
  /\ ~self.deleted
  /\ self.deleted_at = None
  /\ saved = self

(***************************************************************************)
(* Invocations running at once: C16.                                       *)
(***************************************************************************)
SameArguments(c, d) ==
  /\ calls[c].fn = calls[d].fn
  /\ joins[calls[c].this] = joins[calls[d].this]
  /\ calls[c].override_source_table_key = calls[d].override_source_table_key
  /\ calls[c].override_joining_table_key = calls[d].override_joining_table_key
  /\ calls[c].join_to_add = calls[d].join_to_add
  /\ calls[c].node = calls[d].node

\* C16: whatever the interleaving of the steps of the invocations, each
\* invocation returns (or raises) what its function returns run on its own
\* from the state it was invoked in, and two invocations of one function
\* with equal record and arguments return equal join nodes or the same
\* error.
C16_InvocationsDoNotInterfere ==
  /\ \A c \in CallIds : Done(c) => calls[c].result = calls[c].alone
  /\ \A c, d \in CallIds :
       Done(c) /\ Done(d) /\ SameArguments(c, d) => calls[c].result = calls[d].result

\* C16 witness: invocation 2, of the temporal synthesizer, was made while
\* invocation 1, of the standard synthesizer with an override over the same
\* record, was in flight; both returned a join node.
C16_OverlappingCallsReturned ==
  /\ Done(1) /\ Done(2)
  /\ calls[2].during = {1}
  /\ calls[1].this = calls[2].this
  /\ calls[1].fn = "join_function"
  /\ calls[1].override_source_table_key = Str(K_c_d)
  /\ calls[1].result.kind = "JoinExpr"
  /\ calls[2].fn = "join_function_for_experiments"
  /\ calls[2].result.kind = "JoinExpr"

(***************************************************************************)
(* The retry loop of the schema generator: C19.                            *)
(***************************************************************************)
Failed == "PydanticOutputParserException"

\* C19: in a run that started with no intermediate steps, when the second
\* generation attempt has failed to parse like the first, the generator has
\* returned a FailureMessage and cleared intermediate_steps and plan, so the
\* router sends the run to "next" and no third attempt is made.
C19_SecondFailureReturnsFailureMessage ==
  /\ Len(attempts) <= 2
  /\ at = "router" /\ attempts = <<Failed, Failed>> =>
       /\ state.messages = <<FailureMessage>>
       /\ state.intermediate_steps = List(<<>>)
       /\ state.plan = Str(<<>>)
       /\ router(state) = "next"

====
